---- MODULE Spec2Model ----
(***************************************************************************)
(* A model of SemanticClauseSearch (src/semantic_search.py): the in-memory *)
(* index, clauses and metadata of one instance, the two artifacts          *)
(* <path>.faiss and <path>_metadata.pkl on disk, and the operations        *)
(* __init__, build_index, search, save_index and load_index; and of what   *)
(* feeds it: the upstream analysis of src/llm_processor.py and the text    *)
(* utilities of src/utils.py, which hold no state.                         *)
(*                                                                         *)
(* Spec          the instance and the disk                                 *)
(* SpecBuild     build_index alone, on longer lists of records             *)
(* SpecInMemory  build_index and search without the disk                   *)
(* SpecPipeline  one call of a utility or of the upstream analysis         *)
(*                                                                         *)
(* A text is a string.  The embedding model is a deterministic function    *)
(* from texts to integer vectors; the FAISS                                *)
(* IndexFlatL2 is the ordered list of the vectors added to it.             *)
(***************************************************************************)
EXTENDS Integers, Sequences, FiniteSets, TLC

VARIABLES index, clauses, metadata, faissFile, pklFile, everOk, last

vars == <<index, clauses, metadata, faissFile, pklFile, everOk, last>>

(***************************************************************************)
(* Bounds of the model.                                                    *)
(***************************************************************************)
\* the longest analysis_results list handed to build_index
MaxRecords == 1
\* the largest top_k handed to search
MaxK == 2
\* the longest text handed to normalize_text
MaxTextLen == 5
\* the most repetitions of a unit in a text handed to validate_contract_text
MaxRepeats == 200
\* the most contracts handed to batch_analyze
MaxContracts == 2
\* the largest max_chunk_size handed to chunk_text
MaxChunkSize == 3
\* the longest analysis_results list of the specification of build_index alone
MaxBuildRecords == 2

(***************************************************************************)
(* Texts.                                                                  *)
(***************************************************************************)
UpperChars == <<"A","B","C","D","E","F","G","H","I","J","K","L","M",
                "N","O","P","Q","R","S","T","U","V","W","X","Y","Z">>

LowerChars == <<"a","b","c","d","e","f","g","h","i","j","k","l","m",
                "n","o","p","q","r","s","t","u","v","w","x","y","z">>

\* str.lower() on one character
LowerChar(c) ==
    IF \E i \in 1..Len(UpperChars) : UpperChars[i] = c
    THEN LowerChars[CHOOSE i \in 1..Len(UpperChars) : UpperChars[i] = c]
    ELSE c

\* the character at position i of a string, 1-based
CharAt(s, i) == SubSeq(s, i, i)

\* str.lower()
RECURSIVE Lower(_)
Lower(s) ==
    IF s = "" THEN ""
    ELSE LowerChar(CharAt(s, 1)) \o Lower(SubSeq(s, 2, Len(s)))

\* sub in s
Contains(s, sub) ==
    \E i \in 0..(Len(s) - Len(sub)) : SubSeq(s, i + 1, i + Len(sub)) = sub

\* the literal 'not found' of the filter
NotFoundLiteral == "not found"

TxtEmpty == ""
TxtCap == "cap"
TxtNoFee == "no fee"
TxtDays == "30 days"
TxtNotFound == "Not found in contract"
TxtNotFoundUpper == "NOT FOUND"
TxtNotFoundInside == "clause not Found"

QueryFee == "fee"
QueryTerms == "terms"

Queries == {QueryFee, QueryTerms}

(***************************************************************************)
(* The upstream analysis (src/llm_processor.py): extract_clauses,          *)
(* generate_summary, analyze_contract and batch_analyze.  A reply of the   *)
(* LLM is an exception with its message, a response without content, or a  *)
(* response text.  A JSON value is a dict (a function from its keys), a    *)
(* list or a string.                                                       *)
(***************************************************************************)
Whitespace == {" ", "\n", "\t", "\r"}

\* str.strip()
RECURSIVE Strip(_)
Strip(s) ==
    IF s = "" THEN ""
    ELSE IF CharAt(s, 1) \in Whitespace THEN Strip(SubSeq(s, 2, Len(s)))
    ELSE IF CharAt(s, Len(s)) \in Whitespace
    THEN Strip(SubSeq(s, 1, Len(s) - 1))
    ELSE s

\* the start of the first sub in s, 0 when there is none
Find(s, sub) ==
    IF Contains(s, sub)
    THEN CHOOSE i \in 1..(Len(s) - Len(sub) + 1) :
            /\ SubSeq(s, i, i + Len(sub) - 1) = sub
            /\ \A j \in 1..(i - 1) : SubSeq(s, j, j + Len(sub) - 1) # sub
    ELSE 0

\* s.split(sub)[0]
Piece0(s, sub) ==
    IF Contains(s, sub) THEN SubSeq(s, 1, Find(s, sub) - 1) ELSE s

\* s.split(sub)[1], for an s that has sub in it
Piece1(s, sub) ==
    Piece0(SubSeq(s, Find(s, sub) + Len(sub), Len(s)), sub)

\* the fences of a markdown code block; a TLA+ string cannot hold a backquote,
\* which is written ~ in the texts of the model
Fence == "~~~"
JsonFence == "~~~json"

\* the response text without the markdown code block around it
Unfenced(response_text) ==
    IF Contains(response_text, JsonFence)
    THEN Piece0(Piece1(response_text, JsonFence), Fence)
    ELSE IF Contains(response_text, Fence)
    THEN Piece0(Piece1(response_text, Fence), Fence)
    ELSE response_text

Dict(items) == [type |-> "dict", items |-> items]
List(items) == [type |-> "list", items |-> items]
Str(value) == [type |-> "str", value |-> value]

JsonAllClauses ==
    "{\"termination_clause\": \"30 days\", "
    \o "\"confidentiality_clause\": \"Not found in contract\", "
    \o "\"liability_clause\": \"cap\"}"
JsonOneClause == "{\"termination_clause\": \"30 days\"}"
JsonOtherKey == "{\"clauses\": \"none\"}"
JsonEmptyDict == "{}"
JsonEmptyList == "[]"
JsonString == "\"none\""
TxtRefusal == "I cannot analyze this."
TxtFenced == "Here it is:\n~~~json\n" \o JsonAllClauses \o "\n~~~\nDone."
TxtFencedPlain == "~~~\n" \o JsonOneClause \o "\n~~~"

\* the response texts of the model
ResponseTexts ==
    { JsonAllClauses, JsonOneClause, JsonOtherKey, JsonEmptyDict,
      JsonEmptyList, JsonString, TxtRefusal, TxtFenced, TxtFencedPlain }

JsonDecodeMessage == "Expecting value: line 1 column 1 (char 0)"

\* json.loads on the texts of the model: the value, or the JSONDecodeError
JsonLoads(text) ==
    CASE text = JsonAllClauses ->
           [ok |-> TRUE,
            value |-> Dict([termination_clause |-> "30 days",
                            confidentiality_clause |-> TxtNotFound,
                            liability_clause |-> "cap"])]
      [] text = JsonOneClause ->
           [ok |-> TRUE, value |-> Dict([termination_clause |-> "30 days"])]
      [] text = JsonOtherKey ->
           [ok |-> TRUE, value |-> Dict([clauses |-> "none"])]
      [] text = JsonEmptyDict -> [ok |-> TRUE, value |-> Dict(<<>>)]
      [] text = JsonEmptyList -> [ok |-> TRUE, value |-> List(<<>>)]
      [] text = JsonString -> [ok |-> TRUE, value |-> Str("none")]
      [] OTHER -> [ok |-> FALSE, message |-> JsonDecodeMessage]

\* the messages of the exceptions of the API call
ApiMessages == {"Connection error.", "404 page not found", ""}

NoContentMessage == "list index out of range"

Raises(message) == [kind |-> "raises", message |-> message]
NoContent == [kind |-> "no content"]
Responds(text) == [kind |-> "text", text |-> text]

\* the replies of self.client.messages.create
Replies ==
    { Raises(m) : m \in ApiMessages } \cup { NoContent }
    \cup { Responds(t) : t \in ResponseTexts }

\* the except branch of extract_clauses
ErrorClauses(message) ==
    Dict([termination_clause |-> "Error: " \o message,
          confidentiality_clause |-> "Error: " \o message,
          liability_clause |-> "Error: " \o message])

\* extract_clauses(contract_text), the LLM replying reply
ExtractClauses(reply) ==
    IF reply.kind = "raises" THEN ErrorClauses(reply.message)
    ELSE IF reply.kind = "no content" THEN ErrorClauses(NoContentMessage)
    ELSE LET parsed == JsonLoads(Strip(Unfenced(reply.text)))
         IN  IF parsed.ok THEN parsed.value
             ELSE ErrorClauses(parsed.message)

\* generate_summary(contract_text), the LLM replying reply
GenerateSummary(reply) ==
    IF reply.kind = "raises"
    THEN "Error generating summary: " \o reply.message
    ELSE IF reply.kind = "no content"
    THEN "Error generating summary: " \o NoContentMessage
    ELSE Strip(reply.text)

\* dict.get(key, default)
Get(dict, key, default) ==
    IF key \in DOMAIN dict.items THEN dict.items[key] ELSE default

\* analyze_contract(contract_id, contract_text), the LLM replying llm.clauses
\* to extract_clauses and llm.summary to generate_summary: the result, or the
\* AttributeError of clauses.get on a value that is no dict
AnalyzeContract(contract_id, llm) ==
    LET extracted == ExtractClauses(llm.clauses)
        summary == GenerateSummary(llm.summary)
    IN  IF extracted.type # "dict"
        THEN [raised |-> TRUE,
              message |-> "'" \o extracted.type
                              \o "' object has no attribute 'get'"]
        ELSE [raised |-> FALSE,
              result |->
                [contract_id |-> contract_id,
                 summary |-> summary,
                 termination_clause |->
                     Get(extracted, "termination_clause", "Not found"),
                 confidentiality_clause |->
                     Get(extracted, "confidentiality_clause", "Not found"),
                 liability_clause |->
                     Get(extracted, "liability_clause", "Not found")]]

\* Optional[int]
None == [isNone |-> TRUE]
Some(n) == [isNone |-> FALSE, value |-> n]

\* bool(max_contracts)
Truthy(max_contracts) == ~max_contracts.isNone /\ max_contracts.value # 0

\* items[:n]
Slice(items, n) ==
    LET stop == IF n >= 0 THEN (IF n < Len(items) THEN n ELSE Len(items))
                ELSE (IF Len(items) + n > 0 THEN Len(items) + n ELSE 0)
    IN  SubSeq(items, 1, stop)

\* one pass of the loop of batch_analyze: what it appends to results
BatchResult(contract_id, llm) ==
    LET analysis == AnalyzeContract(contract_id, llm)
    IN  IF analysis.raised
        THEN [contract_id |-> contract_id,
              summary |-> "Error: " \o analysis.message,
              termination_clause |-> "Error",
              confidentiality_clause |-> "Error",
              liability_clause |-> "Error"]
        ELSE analysis.result

\* batch_analyze(contracts, max_contracts): contracts is the list of the keys
\* of the mapping in its iteration order, llm[contract_id] the replies of the
\* LLM for that contract
BatchAnalyze(contracts, max_contracts, llm) ==
    LET contract_items == IF Truthy(max_contracts)
                          THEN Slice(contracts, max_contracts.value)
                          ELSE contracts
    IN  [idx \in 1..Len(contract_items) |->
            BatchResult(contract_items[idx], llm[contract_items[idx]])]

TxtSummary == "A services agreement."

\* the LLM replying reply to extract_clauses and a summary to generate_summary
Llm(reply) == [clauses |-> reply, summary |-> Responds(TxtSummary)]

\* the replies that make extract_clauses or analyze_contract fail
FailingReplies ==
    { Raises(m) : m \in ApiMessages }
    \cup { NoContent, Responds(TxtRefusal), Responds(JsonEmptyList),
           Responds(JsonString) }

\* the analysis results of one contract whose analysis failed
ErrorInputs ==
    { BatchAnalyze(<<"c1">>, None, [id \in {"c1"} |-> Llm(reply)]) :
        reply \in FailingReplies }

(***************************************************************************)
(* The analysis results handed to build_index.                             *)
(***************************************************************************)
AnalysisResult(id, t, c, l) ==
    [contract_id |-> id, termination_clause |-> t,
     confidentiality_clause |-> c, liability_clause |-> l]

RecordPool ==
    { AnalysisResult("c1", TxtCap, TxtNotFound, TxtNoFee),
      AnalysisResult("c2", TxtNotFoundUpper, TxtDays, TxtEmpty),
      AnalysisResult("c3", TxtEmpty, TxtNotFoundInside, TxtNotFound) }

RECURSIVE SeqsUpTo(_, _)
SeqsUpTo(S, n) ==
    IF n = 0 THEN { <<>> }
    ELSE LET shorter == SeqsUpTo(S, n - 1)
         IN  shorter \cup { Append(s, x) : s \in shorter, x \in S }

\* the non-empty lists of at most MaxRecords analysis results
AnalysisInputs == SeqsUpTo(RecordPool, MaxRecords) \ { <<>> }

\* the non-empty lists of at most MaxBuildRecords analysis results
BuildInputs == SeqsUpTo(RecordPool, MaxBuildRecords) \ { <<>> }

\* every list that is handed to build_index
AllInputs == AnalysisInputs \cup BuildInputs \cup ErrorInputs

(***************************************************************************)
(* build_index: the filter and the two parallel lists it fills.            *)
(***************************************************************************)
\* the filter dropping the texts of errors as well
KeepsNoErrors(text) ==
    /\ text # ""
    /\ ~Contains(Lower(text), NotFoundLiteral)
    /\ ~(Len(text) >= 5 /\ SubSeq(text, 1, 5) = "Error")

\* result[field] and 'not found' not in result[field].lower()
Keeps(text) ==
    text # "" /\ ~Contains(Lower(text), NotFoundLiteral)

\* the clause texts one result appends to all_clauses
ClausesOf(result) ==
    (IF Keeps(result.termination_clause)
        THEN <<result.termination_clause>> ELSE <<>>)
    \o (IF Keeps(result.confidentiality_clause)
        THEN <<result.confidentiality_clause>> ELSE <<>>)
    \o (IF Keeps(result.liability_clause)
        THEN <<result.liability_clause>> ELSE <<>>)

\* the entries one result appends to all_metadata
MetadataOf(result) ==
    (IF Keeps(result.termination_clause)
        THEN << [contract_id |-> result.contract_id,
                 clause_type |-> "termination",
                 text |-> result.termination_clause] >>
        ELSE <<>>)
    \o (IF Keeps(result.confidentiality_clause)
        THEN << [contract_id |-> result.contract_id,
                 clause_type |-> "confidentiality",
                 text |-> result.confidentiality_clause] >>
        ELSE <<>>)
    \o (IF Keeps(result.liability_clause)
        THEN << [contract_id |-> result.contract_id,
                 clause_type |-> "liability",
                 text |-> result.liability_clause] >>
        ELSE <<>>)

RECURSIVE AllClauses(_)
AllClauses(results) ==
    IF results = <<>> THEN <<>>
    ELSE ClausesOf(Head(results)) \o AllClauses(Tail(results))

\* the filter loop putting the entries of a later record first
RECURSIVE AllMetadataNewestFirst(_)
AllMetadataNewestFirst(results) ==
    IF results = <<>> THEN <<>>
    ELSE AllMetadataNewestFirst(Tail(results)) \o MetadataOf(Head(results))

RECURSIVE AllMetadata(_)
AllMetadata(results) ==
    IF results = <<>> THEN <<>>
    ELSE MetadataOf(Head(results)) \o AllMetadata(Tail(results))

\* all_clauses and all_metadata as the filter loop leaves them, tabulated
\* over the inputs of the model
Filtered ==
    [results \in AllInputs |->
        [all_clauses |-> AllClauses(results),
         all_metadata |-> AllMetadata(results)]]

(***************************************************************************)
(* The embedding model: a deterministic map from a text to a vector of     *)
(* Dimension numbers.                                                      *)
(***************************************************************************)
RECURSIVE CountChar(_, _)
CountChar(s, c) ==
    IF s = "" THEN 0
    ELSE (IF CharAt(s, 1) = c THEN 1 ELSE 0)
         + CountChar(SubSeq(s, 2, Len(s)), c)

\* the vector of one text
Encode(text) == <<Len(text), CountChar(text, "e")>>

\* the texts of the model
Texts ==
    Queries
    \cup UNION { UNION { { results[i].termination_clause,
                           results[i].confidentiality_clause,
                           results[i].liability_clause } :
                         i \in 1..Len(results) } :
                 results \in AllInputs }

\* Encode, tabulated over the texts of the model
Encoded == [text \in Texts |-> Encode(text)]

\* self.model.encode([text])[0]
Embed(text) == Encoded[text]

\* self.model.encode(texts): one vector per text, in the order of the texts
EmbedBatch(texts) == [i \in 1..Len(texts) |-> Embed(texts[i])]

(***************************************************************************)
(* faiss.IndexFlatL2: exact search by squared L2 distance.                 *)
(***************************************************************************)
RECURSIVE SumSq(_, _)
SumSq(a, b) ==
    IF a = <<>> THEN 0
    ELSE (Head(a) - Head(b)) * (Head(a) - Head(b)) + SumSq(Tail(a), Tail(b))

\* the squared L2 distance IndexFlatL2 reports
L2(a, b) == SumSq(a, b)

\* the distance reported for a missing neighbour (the largest float32; here
\* the largest integer of the model)
FltMax == 2147483647

\* the label reported for a missing neighbour
NoLabel == -1

\* The orders in which the stored vectors can be reported: by ascending
\* distance, vectors at equal distance in any order.  Positions are 1-based.
RECURSIVE Rankings(_, _, _)
Rankings(vecs, q, left) ==
    IF left = {} THEN { <<>> }
    ELSE LET nearest == { i \in left :
                            \A j \in left : L2(vecs[i], q) <= L2(vecs[j], q) }
         IN  UNION { { <<i>> \o r : r \in Rankings(vecs, q, left \ {i}) } :
                     i \in nearest }

\* index.search(q, k) for k >= 1: every (labels, distances) pair it can
\* return, as a sequence of k hits; labels are 0-based, and a search for
\* more neighbours than are stored pads with NoLabel at distance FltMax.
IndexSearch(vecs, q, k) ==
    { [i \in 1..k |->
         IF i <= Len(r)
         THEN [idx |-> r[i] - 1, dist |-> L2(vecs[r[i]], q)]
         ELSE [idx |-> NoLabel, dist |-> FltMax]] :
      r \in Rankings(vecs, q, 1..Len(vecs)) }

\* index.search(q, k) for k <= 0, which depends on the faiss build: the
\* wrapper asserts k > 0 (AssertionError); an older wrapper allocates the
\* n x k result arrays, which numpy refuses for k < 0 (ValueError) and which
\* are empty for k = 0, so that the result loop runs over nothing.
NoNeighbours(k) ==
    {"AssertionError"} \cup (IF k = 0 THEN {"ok"} ELSE {"ValueError"})

\* Python's list[idx] is defined for -len <= idx < len
InRange(list, idx) == -Len(list) <= idx /\ idx < Len(list)

\* Python's list[idx], a negative idx counting from the end
PyItem(list, idx) ==
    IF idx < 0 THEN list[Len(list) + idx + 1] ELSE list[idx + 1]

\* the guard of the result loop: idx < len(self.metadata)
Selected(hit, meta) == hit.idx < Len(meta)

\* the result loop reading self.metadata[idx - 1]
RECURSIVE ResultsOffByOne(_, _)
ResultsOffByOne(hits, meta) ==
    IF hits = <<>> THEN <<>>
    ELSE (IF Selected(Head(hits), meta)
          THEN << [payload |-> PyItem(meta, Head(hits).idx - 1),
                   distance |-> Head(hits).dist] >>
          ELSE <<>>)
         \o ResultsOffByOne(Tail(hits), meta)

\* the result loop of search, when no self.metadata[idx] raises
RECURSIVE Results(_, _)
Results(hits, meta) ==
    IF hits = <<>> THEN <<>>
    ELSE (IF Selected(Head(hits), meta)
          THEN << [payload |-> PyItem(meta, Head(hits).idx),
                   distance |-> Head(hits).dist] >>
          ELSE <<>>)
         \o Results(Tail(hits), meta)

\* some self.metadata[idx] of the result loop raises IndexError
LoopRaises(hits, meta) ==
    \E i \in 1..Len(hits) :
        Selected(hits[i], meta) /\ ~InRange(meta, hits[i].idx)

(***************************************************************************)
(* The state.                                                              *)
(*   index      self.index: None, or the vectors added to the IndexFlatL2  *)
(*   clauses    self.clauses                                               *)
(*   metadata   self.metadata                                              *)
(*   faissFile  the artifact <path>.faiss                                  *)
(*   pklFile    the artifact <path>_metadata.pkl                           *)
(*   everOk     history: a build_index of this instance has stored an      *)
(*              index, or a load_index of it has returned                  *)
(*   last       the last call: its arguments, its outcome ("ok" or the     *)
(*              exception it raised) and what it returned; in SpecPipeline *)
(*              first the call that is about to run                        *)
(* The field savedWith of the .faiss artifact is history: the metadata the *)
(* instance held when the vectors were written.                            *)
(***************************************************************************)
NoIndex == [built |-> FALSE, vecs |-> <<>>]

IndexOf(vectors) == [built |-> TRUE, vecs |-> vectors]

NoFaissFile == [status |-> "absent", index |-> NoIndex, savedWith |-> <<>>]

\* a .faiss file that fopen(path, "wb") truncated and write_index did not
\* fill: faiss.read_index raises on it
TruncatedFaissFile ==
    [status |-> "corrupt", index |-> NoIndex, savedWith |-> <<>>]

NoPklFile == [status |-> "absent", clauses |-> <<>>, metadata |-> <<>>]

\* a metadata file that open(path, 'wb') truncated and pickle.dump did not
\* finish: pickle.load raises on it
TruncatedPklFile ==
    [status |-> "corrupt", clauses |-> <<>>, metadata |-> <<>>]

\* encode: what self.model.encode did in the call
Call(op, outcome) ==
    [op |-> op, outcome |-> outcome, analysis_results |-> <<>>,
     query |-> "", top_k |-> 0, results |-> <<>>, encode |-> "not called"]

\* __init__: a fresh instance; the artifacts on disk stay
New ==
    /\ index' = NoIndex
    /\ clauses' = <<>>
    /\ metadata' = <<>>
    /\ everOk' = FALSE
    /\ last' = Call("init", "ok")
    /\ UNCHANGED <<faissFile, pklFile>>

Init ==
    /\ index = NoIndex
    /\ clauses = <<>>
    /\ metadata = <<>>
    /\ everOk = FALSE
    /\ last = Call("init", "ok")
    /\ faissFile = NoFaissFile
    /\ pklFile = NoPklFile

\* build_index catching the error of the embedding and indexing a zero vector
\* for every clause
BuildIndexSwallowing(analysis_results, encodeRaises) ==
    LET all_clauses == Filtered[analysis_results].all_clauses
        all_metadata == Filtered[analysis_results].all_metadata
        call == [Call("build_index", "ok")
                    EXCEPT !.analysis_results = analysis_results]
    IN  IF all_clauses = <<>>
        THEN /\ last' = call
             /\ UNCHANGED <<index, clauses, metadata, everOk,
                            faissFile, pklFile>>
        ELSE /\ clauses' = all_clauses
             /\ metadata' = all_metadata
             /\ everOk' = TRUE
             /\ IF encodeRaises
                THEN /\ index' = IndexOf([i \in 1..Len(all_clauses) |->
                                             <<0, 0>>])
                     /\ last' = [call EXCEPT !.encode = "raised"]
                ELSE /\ index' = IndexOf(EmbedBatch(all_clauses))
                     /\ last' = [call EXCEPT !.encode = "returned"]
             /\ UNCHANGED <<faissFile, pklFile>>

\* build_index(analysis_results); encodeRaises: self.model.encode raises
BuildIndex(analysis_results, encodeRaises) ==
    LET all_clauses == Filtered[analysis_results].all_clauses
        all_metadata == Filtered[analysis_results].all_metadata
        call == [Call("build_index", "ok")
                    EXCEPT !.analysis_results = analysis_results]
    IN  IF all_clauses = <<>>
        THEN /\ last' = call
             /\ UNCHANGED <<index, clauses, metadata, everOk,
                            faissFile, pklFile>>
        ELSE /\ clauses' = all_clauses
             /\ metadata' = all_metadata
             /\ IF encodeRaises
                THEN /\ last' = [call EXCEPT !.outcome = "EncodeError",
                                              !.encode = "raised"]
                     /\ UNCHANGED <<index, everOk>>
                ELSE /\ index' = IndexOf(EmbedBatch(all_clauses))
                     /\ everOk' = TRUE
                     /\ last' = [call EXCEPT !.encode = "returned"]
             /\ UNCHANGED <<faissFile, pklFile>>

\* search(query, top_k); encodeRaises: self.model.encode raises
Search(query, top_k, encodeRaises) ==
    LET call == [Call("search", "ok")
                    EXCEPT !.query = query, !.top_k = top_k]
    IN  /\ UNCHANGED <<index, clauses, metadata, everOk, faissFile, pklFile>>
        /\ IF ~index.built
           THEN last' = [call EXCEPT !.outcome = "ValueError"]
           ELSE IF encodeRaises
           THEN last' = [call EXCEPT !.outcome = "EncodeError",
                                        !.encode = "raised"]
           ELSE IF top_k <= 0
           THEN \E outcome \in NoNeighbours(top_k) :
                  last' = [call EXCEPT !.outcome = outcome,
                                       !.encode = "returned"]
           ELSE \E hits \in IndexSearch(index.vecs, Embed(query), top_k) :
                  IF LoopRaises(hits, metadata)
                  THEN last' = [call EXCEPT !.outcome = "IndexError",
                                            !.encode = "returned"]
                  ELSE last' = [call EXCEPT
                                   !.results = Results(hits, metadata),
                                   !.encode = "returned"]

\* what faiss.write_index(self.index, path + ".faiss") leaves on disk
WrittenFaissFile ==
    [status |-> "ok", index |-> index, savedWith |-> metadata]

\* the two lists pickled last entry first
WrittenPklFileReversed ==
    [status |-> "ok",
     clauses |-> [i \in 1..Len(clauses) |-> clauses[Len(clauses) + 1 - i]],
     metadata |-> [i \in 1..Len(metadata) |->
                      metadata[Len(metadata) + 1 - i]]]

\* what pickle.dump({'clauses': ..., 'metadata': ...}, f) leaves on disk
WrittenPklFile ==
    [status |-> "ok", clauses |-> clauses, metadata |-> metadata]

\* the places where save_index can raise
SaveFailures == {"none", "write_index", "open", "dump"}

\* What faiss.write_index does with self.index = None depends on the faiss
\* build: the binding rejects None, or the writer opens the file and then
\* raises, or it writes the file of a missing index, which read_index reads
\* back as None.
NoneIndexWrites == {"rejected", "truncates", "written"}

\* save_index(path); failsAt: the step of it that raises, if any;
\* noneIndex: what write_index does with None
SaveIndex(failsAt, noneIndex) ==
    /\ UNCHANGED <<index, clauses, metadata, everOk>>
    /\ IF ~index.built /\ noneIndex = "rejected"
       THEN /\ last' = Call("save_index", "TypeError")
            /\ UNCHANGED <<faissFile, pklFile>>
       ELSE IF ~index.built /\ noneIndex = "truncates"
       THEN /\ last' = Call("save_index", "RuntimeError")
            /\ faissFile' = TruncatedFaissFile
            /\ UNCHANGED pklFile
       ELSE IF failsAt = "write_index"
       THEN /\ last' = Call("save_index", "IOError")
            /\ UNCHANGED <<faissFile, pklFile>>
       ELSE /\ faissFile' = WrittenFaissFile
            /\ IF failsAt = "open"
               THEN /\ last' = Call("save_index", "OSError")
                    /\ UNCHANGED pklFile
               ELSE IF failsAt = "dump"
               THEN /\ last' = Call("save_index", "PicklingError")
                    /\ pklFile' = TruncatedPklFile
               ELSE /\ last' = Call("save_index", "ok")
                    /\ pklFile' = WrittenPklFile

\* load_index adding what it reads to what the instance holds
LoadIndexMerging ==
    /\ UNCHANGED <<faissFile, pklFile>>
    /\ IF faissFile.status # "ok"
       THEN /\ last' = Call("load_index", "RuntimeError")
            /\ UNCHANGED <<index, clauses, metadata, everOk>>
       ELSE /\ index' = IndexOf(index.vecs \o faissFile.index.vecs)
            /\ IF pklFile.status # "ok"
               THEN /\ last' = Call("load_index", "FileNotFoundError")
                    /\ UNCHANGED <<clauses, metadata, everOk>>
               ELSE /\ clauses' = clauses \o pklFile.clauses
                    /\ metadata' = metadata \o pklFile.metadata
                    /\ everOk' = TRUE
                    /\ last' = Call("load_index", "ok")

\* load_index(path)
LoadIndex ==
    /\ UNCHANGED <<faissFile, pklFile>>
    /\ IF faissFile.status # "ok"
       THEN \* faiss.read_index raises
            /\ last' = Call("load_index", "RuntimeError")
            /\ UNCHANGED <<index, clauses, metadata, everOk>>
       ELSE /\ index' = faissFile.index
            /\ IF pklFile.status = "absent"
               THEN /\ last' = Call("load_index", "FileNotFoundError")
                    /\ UNCHANGED <<clauses, metadata, everOk>>
               ELSE IF pklFile.status = "corrupt"
               THEN /\ last' = Call("load_index", "UnpicklingError")
                    /\ UNCHANGED <<clauses, metadata, everOk>>
               ELSE /\ clauses' = pklFile.clauses
                    /\ metadata' = pklFile.metadata
                    /\ everOk' = TRUE
                    /\ last' = Call("load_index", "ok")

TopKs == 1..MaxK

Next ==
    \/ New
    \/ \E analysis_results \in AnalysisInputs, encodeRaises \in BOOLEAN :
          BuildIndex(analysis_results, encodeRaises)
    \/ \E query \in Queries, top_k \in TopKs, encodeRaises \in BOOLEAN :
          Search(query, top_k, encodeRaises)
    \/ \E failsAt \in SaveFailures, noneIndex \in NoneIndexWrites :
          SaveIndex(failsAt, noneIndex)
    \/ LoadIndex

Spec == Init /\ [][Next]_vars

(***************************************************************************)
(* build_index alone, on longer lists of records.                          *)
(***************************************************************************)
NextBuild ==
    \/ New
    \/ \E analysis_results \in BuildInputs, encodeRaises \in BOOLEAN :
          BuildIndex(analysis_results, encodeRaises)

SpecBuild == Init /\ [][NextBuild]_vars

(***************************************************************************)
(* The instance without the disk: build_index also on the results of       *)
(* failed analyses, search also for no neighbours and for fewer.           *)
(***************************************************************************)
\* the least top_k handed to search
MinK == -1

AnyKs == MinK..MaxK

NextInMemory ==
    \/ New
    \/ \E analysis_results \in AnalysisInputs \cup ErrorInputs,
          encodeRaises \in BOOLEAN :
          BuildIndex(analysis_results, encodeRaises)
    \/ \E query \in Queries, top_k \in AnyKs, encodeRaises \in BOOLEAN :
          Search(query, top_k, encodeRaises)

SpecInMemory == Init /\ [][NextInMemory]_vars

(***************************************************************************)
(* The text utilities (src/utils.py) and the upstream analysis as          *)
(* operations: each call is recorded in last, the instance stays as it is. *)
(***************************************************************************)
\* a TLA+ string cannot hold the character \x00, which is written @ in the
\* texts of the model
Nul == "@"

\* re.sub(r' +', ' ', text)
RECURSIVE CollapseSpaces(_)
CollapseSpaces(s) ==
    IF Len(s) < 2 THEN s
    ELSE IF CharAt(s, 1) = " " /\ CharAt(s, 2) = " "
    THEN CollapseSpaces(SubSeq(s, 2, Len(s)))
    ELSE CharAt(s, 1) \o CollapseSpaces(SubSeq(s, 2, Len(s)))

\* re.sub(r'\n{3,}', '\n\n', text)
RECURSIVE CollapseNewlines(_)
CollapseNewlines(s) ==
    IF Len(s) < 3 THEN s
    ELSE IF SubSeq(s, 1, 3) = "\n\n\n"
    THEN CollapseNewlines(SubSeq(s, 2, Len(s)))
    ELSE CharAt(s, 1) \o CollapseNewlines(SubSeq(s, 2, Len(s)))

\* text.replace(old, new) for a single character old
RECURSIVE Replace(_, _, _)
Replace(s, old, new) ==
    IF s = "" THEN ""
    ELSE (IF CharAt(s, 1) = old THEN new ELSE CharAt(s, 1))
         \o Replace(SubSeq(s, 2, Len(s)), old, new)

\* normalize_text(text)
NormalizeText(text) ==
    Strip(Replace(Replace(CollapseNewlines(CollapseSpaces(text)), Nul, ""),
                  "\r", "\n"))

\* the characters of the texts handed to normalize_text
TextChars == {"a", " ", "\n", "\r", Nul}

RECURSIVE StringsUpTo(_, _)
StringsUpTo(chars, n) ==
    IF n = 0 THEN { "" }
    ELSE LET shorter == StringsUpTo(chars, n - 1)
         IN  shorter \cup { s \o c : s \in shorter, c \in chars }

RawTexts == StringsUpTo(TextChars, MaxTextLen)

Digits == <<"0", "1", "2", "3", "4", "5", "6", "7", "8", "9">>

\* the characters \w matches
IsWordChar(c) ==
    \/ \E i \in 1..Len(LowerChars) : LowerChars[i] = c \/ UpperChars[i] = c
    \/ \E i \in 1..Len(Digits) : Digits[i] = c
    \/ c = "_"

\* len(re.findall(r'\b\w+\b', text)): the maximal runs of word characters
CountWords(text) ==
    Cardinality({ i \in 1..Len(text) :
                    /\ IsWordChar(CharAt(text, i))
                    /\ (i = 1 \/ ~IsWordChar(CharAt(text, i - 1))) })

\* the default of min_length
DefaultMinLength == 100

\* the least number of words of a valid text
MinWords == 50

\* validate_contract_text(text, min_length)
ValidateContractText(text, min_length) ==
    IF text = "" \/ Len(text) < min_length THEN FALSE
    ELSE IF CountWords(text) < MinWords THEN FALSE
    ELSE TRUE

\* unit * n
RECURSIVE Repeat(_, _)
Repeat(unit, n) ==
    IF n = 0 THEN ""
    ELSE IF n % 2 = 0
    THEN LET half == Repeat(unit, n \div 2) IN half \o half
    ELSE Repeat(unit, n - 1) \o unit

\* the units of the texts handed to validate_contract_text
Units == {"a", "ab ", "a, ", "- "}

\* the separator of paragraphs
ParagraphBreak == "\n\n"

\* text.split(sep): the pieces between the occurrences of sep, found from
\* the left
RECURSIVE Split(_, _)
Split(s, sep) ==
    IF Contains(s, sep)
    THEN <<Piece0(s, sep)>>
         \o Split(SubSeq(s, Find(s, sep) + Len(sep), Len(s)), sep)
    ELSE <<s>>

\* the loop of chunk_text over the paragraphs that are left: the chunks it
\* appends and the current_chunk it ends with
RECURSIVE ChunkLoop(_, _, _, _)
ChunkLoop(paragraphs, chunks, current_chunk, max_chunk_size) ==
    IF paragraphs = <<>>
    THEN [chunks |-> chunks, current_chunk |-> current_chunk]
    ELSE LET para == Head(paragraphs)
         IN  IF Len(current_chunk) + Len(para) > max_chunk_size
                /\ current_chunk # ""
             THEN ChunkLoop(Tail(paragraphs), Append(chunks, current_chunk),
                            para, max_chunk_size)
             ELSE ChunkLoop(Tail(paragraphs), chunks,
                            current_chunk
                              \o (IF current_chunk # ""
                                  THEN ParagraphBreak \o para ELSE para),
                            max_chunk_size)

\* chunk_text(text, max_chunk_size)
ChunkText(text, max_chunk_size) ==
    IF Len(text) <= max_chunk_size THEN <<text>>
    ELSE LET done == ChunkLoop(Split(text, ParagraphBreak), <<>>, "",
                               max_chunk_size)
         IN  IF done.current_chunk # ""
             THEN Append(done.chunks, done.current_chunk)
             ELSE done.chunks

\* the texts handed to chunk_text
ChunkTexts == StringsUpTo({"a", "\n"}, MaxTextLen)

\* the contract ids of the mapping handed to batch_analyze
ContractIds == {"c1", "c2", "c3"}

\* the lists of at most n different contract ids
RECURSIVE DistinctSeqs(_, _)
DistinctSeqs(ids, n) ==
    IF n = 0 THEN { <<>> }
    ELSE LET shorter == DistinctSeqs(ids, n - 1)
         IN  shorter
             \cup UNION { { Append(s, x) :
                              x \in ids \ { s[i] : i \in 1..Len(s) } } :
                          s \in shorter }

\* the replies of the LLM for one contract of a batch
BatchLlms ==
    { Llm(Responds(JsonAllClauses)), Llm(Raises("Connection error.")),
      Llm(Responds(JsonEmptyList)) }

\* the max_contracts handed to batch_analyze
MaxContractsArgs == { None } \cup { Some(n) : n \in -1..(MaxContracts + 1) }

Idle == UNCHANGED <<index, clauses, metadata, faissFile, pklFile, everOk>>

\* a call that has not run yet
Pending(fn, args) == [op |-> "call", fn |-> fn, args |-> args]

\* the calls of the utilities and of the upstream analysis, with their inputs
PipelineCalls ==
    { Pending("normalize_text", [text |-> text]) : text \in RawTexts }
    \cup { Pending("validate_contract_text",
                   [text |-> Repeat(unit, n),
                    min_length |-> DefaultMinLength]) :
             unit \in Units, n \in 0..MaxRepeats }
    \cup { Pending("chunk_text",
                   [text |-> text, max_chunk_size |-> max_chunk_size]) :
             text \in ChunkTexts, max_chunk_size \in 1..MaxChunkSize }
    \cup { Pending("extract_clauses", [reply |-> reply]) :
             reply \in Replies }
    \cup { Pending("batch_analyze",
                   [contracts |-> contracts, max_contracts |-> max_contracts,
                    llm |-> llm]) :
             contracts \in DistinctSeqs(ContractIds, MaxContracts),
             max_contracts \in MaxContractsArgs,
             llm \in [ContractIds -> BatchLlms] }

\* one call, about to run
InitPipeline ==
    /\ index = NoIndex
    /\ clauses = <<>>
    /\ metadata = <<>>
    /\ everOk = FALSE
    /\ faissFile = NoFaissFile
    /\ pklFile = NoPklFile
    /\ last \in PipelineCalls

Called(fn) == last.op = "call" /\ last.fn = fn

NormalizeTextCall ==
    /\ Called("normalize_text")
    /\ last' = [op |-> "normalize_text", text |-> last.args.text,
                result |-> NormalizeText(last.args.text)]
    /\ Idle

ValidateContractTextCall ==
    /\ Called("validate_contract_text")
    /\ last' = [op |-> "validate_contract_text", text |-> last.args.text,
                min_length |-> last.args.min_length,
                result |-> ValidateContractText(last.args.text,
                                                last.args.min_length)]
    /\ Idle

ChunkTextCall ==
    /\ Called("chunk_text")
    /\ last' = [op |-> "chunk_text", text |-> last.args.text,
                max_chunk_size |-> last.args.max_chunk_size,
                result |-> ChunkText(last.args.text,
                                     last.args.max_chunk_size)]
    /\ Idle

\* extract_clauses catches every Exception: it returns in every case
ExtractClausesCall ==
    /\ Called("extract_clauses")
    /\ last' = [op |-> "extract_clauses", reply |-> last.args.reply,
                outcome |-> "ok",
                result |-> ExtractClauses(last.args.reply)]
    /\ Idle

\* batch_analyze catches every Exception of analyze_contract
BatchAnalyzeCall ==
    /\ Called("batch_analyze")
    /\ last' = [op |-> "batch_analyze", contracts |-> last.args.contracts,
                max_contracts |-> last.args.max_contracts,
                llm |-> last.args.llm, outcome |-> "ok",
                results |-> BatchAnalyze(last.args.contracts,
                                         last.args.max_contracts,
                                         last.args.llm)]
    /\ Idle

NextPipeline ==
    \/ NormalizeTextCall
    \/ ValidateContractTextCall
    \/ ChunkTextCall
    \/ ExtractClausesCall
    \/ BatchAnalyzeCall

SpecPipeline == InitPipeline /\ [][NextPipeline]_vars

(***************************************************************************)
(* Vocabulary of the properties.                                           *)
(***************************************************************************)
\* the instance holds n items: a built index of n vectors beside n payloads
HoldsItems(n) ==
    index.built /\ Len(index.vecs) = n /\ Len(metadata) = n

\* last is a search that got past the embedding of the query
Searched == last.op = "search" /\ last.outcome # "EncodeError"

\* the distances of a result list never decrease
Ascending(results) ==
    \A i \in 1..Len(results) : \A j \in i..Len(results) :
        results[i].distance <= results[j].distance

\* results reports the stored positions pos[1], pos[2], ... in that order:
\* each payload beside the distance of the vector stored at its position
ReportsPositions(results, pos, query) ==
    /\ Len(results) = Len(pos)
    /\ \A j \in 1..Len(pos) :
          /\ results[j].payload = metadata[pos[j]]
          /\ results[j].distance = L2(index.vecs[pos[j]], Embed(query))

\* the one-to-one lists of k of the positions 1..n
Selections(n, k) ==
    { pos \in [1..k -> 1..n] : \A i, j \in 1..k : pos[i] = pos[j] => i = j }

ClauseFields == {"termination", "confidentiality", "liability"}

FieldText(result, field) ==
    IF field = "termination" THEN result.termination_clause
    ELSE IF field = "confidentiality" THEN result.confidentiality_clause
    ELSE result.liability_clause

\* the character c and, when c is a small letter, its capital
EitherCase(c) ==
    {c} \cup { UpperChars[u] : u \in { v \in 1..Len(LowerChars) :
                                          LowerChars[v] = c } }

\* the text has 'not found' in it, in any letter case
HasNotFound(text) ==
    \E i \in 0..(Len(text) - Len(NotFoundLiteral)) :
        \A j \in 1..Len(NotFoundLiteral) :
            CharAt(text, i + j) \in EitherCase(CharAt(NotFoundLiteral, j))

\* the fields of the input that are to be indexed
IndexableFields(results) ==
    { <<i, f>> \in (1..Len(results)) \X ClauseFields :
        /\ FieldText(results[i], f) # ""
        /\ ~HasNotFound(FieldText(results[i], f)) }

\* the order in which build_index reads the clause fields of a record
FieldOrder == <<"termination", "confidentiality", "liability">>

\* the payloads of the indexable fields of results, from field p on, counting
\* the fields record by record and within a record in FieldOrder
RECURSIVE PayloadsFrom(_, _)
PayloadsFrom(results, p) ==
    IF p > 3 * Len(results) THEN <<>>
    ELSE LET i == ((p - 1) \div 3) + 1
             f == FieldOrder[((p - 1) % 3) + 1]
         IN  (IF <<i, f>> \in IndexableFields(results)
              THEN << [contract_id |-> results[i].contract_id,
                       clause_type |-> f,
                       text |-> FieldText(results[i], f)] >>
              ELSE <<>>)
             \o PayloadsFrom(results, p + 1)

\* what search(query, top_k) can do on an instance holding idx and meta, once
\* the query is embedded: the exception it raises, or the list it returns
SearchOutcomes(idx, meta, query, top_k) ==
    IF ~idx.built
    THEN { [outcome |-> "ValueError", results |-> <<>>] }
    ELSE { IF LoopRaises(hits, meta)
           THEN [outcome |-> "IndexError", results |-> <<>>]
           ELSE [outcome |-> "ok", results |-> Results(hits, meta)] :
           hits \in IndexSearch(idx.vecs, Embed(query), top_k) }

\* both artifacts are on disk, whole
OnDisk == faissFile.status = "ok" /\ pklFile.status = "ok"

\* an instance that holds what is on disk answers every search as this
\* instance does
DiskAnswersAsMemory ==
    \A query \in Queries, top_k \in TopKs :
        SearchOutcomes(faissFile.index, pklFile.metadata, query, top_k)
          = SearchOutcomes(index, metadata, query, top_k)

\* the instance is as __init__ left it
Fresh == index = NoIndex /\ clauses = <<>> /\ metadata = <<>>

\* last is a build_index that returned
Built == last.op = "build_index" /\ last.outcome = "ok"

(***************************************************************************)
(* The properties.                                                         *)
(***************************************************************************)

\* C1: in every reachable state, also after a call that raised, the index
\* holds as many vectors as metadata and clauses hold entries.
C1_CountsAgree ==
    /\ Len(index.vecs) = Len(metadata)
    /\ Len(metadata) = Len(clauses)

\* C2: on an instance holding n >= 1 items, a search with top_k > n returns
\* exactly n results: every stored item once, closest first, nothing padded.
C2_SearchBeyondSizeReturnsAll ==
    \A n \in 1..MaxK :
        (Searched /\ HoldsItems(n) /\ last.top_k > n)
        => /\ last.outcome = "ok"
           /\ Len(last.results) = n
           /\ Ascending(last.results)
           /\ \E pos \in Selections(n, n) :
                 ReportsPositions(last.results, pos, last.query)

\* C3: a build_index on a fresh instance whose every field is filtered out
\* does not raise, and the search that follows it returns an empty list.
C3_SearchAfterEmptyBuildReturnsEmpty ==
    [][ /\ (Fresh /\ last'.op = "build_index"
              /\ IndexableFields(last'.analysis_results) = {})
           => last'.outcome = "ok"
        /\ (Fresh /\ Built /\ IndexableFields(last.analysis_results) = {}
              /\ last'.op = "search" /\ last'.outcome # "EncodeError")
           => (last'.outcome = "ok" /\ last'.results = <<>>) ]_vars

\* C4: when build_index has returned, the instance holds exactly the filtered
\* records of that call, whatever it held before.
C4_BuildReplacesContents ==
    Built =>
        /\ clauses = AllClauses(last.analysis_results)
        /\ metadata = AllMetadata(last.analysis_results)
        /\ index.vecs = EmbedBatch(AllClauses(last.analysis_results))

\* C5: a load_index that raises leaves index, clauses and metadata as they were.
C5_FailedLoadChangesNothing ==
    [][ (last'.op = "load_index" /\ last'.outcome # "ok")
        => UNCHANGED <<index, clauses, metadata>> ]_vars

\* C6: load_index returns normally only when both artifacts are present and
\* hold the same number of entries.
C6_LoadChecksCounts ==
    (last.op = "load_index" /\ last.outcome = "ok")
    => /\ faissFile.status = "ok"
       /\ pklFile.status = "ok"
       /\ Len(faissFile.index.vecs) = Len(pklFile.metadata)

\* C7: the two artifacts on disk come from the same state of the instance:
\* the payloads beside the vectors are the payloads the vectors were saved with.
C7_ArtifactsFromOneState ==
    (faissFile.status = "ok" /\ pklFile.status = "ok")
    => faissFile.savedWith = pklFile.metadata

\* C8: on an instance on which no build_index and no load_index has succeeded,
\* search raises the index-not-built ValueError and changes no state.
C8_SearchBeforeBuildRaises ==
    [][ (~everOk /\ last'.op = "search")
        => /\ last'.outcome = "ValueError"
           /\ UNCHANGED <<index, clauses, metadata, faissFile, pklFile>>
      ]_vars

\* C9: on an instance holding n items, a search with 1 <= top_k <= n returns
\* exactly top_k results, closest first, each a payload beside the distance of
\* the vector stored at that payload's position, and no stored item left out
\* is closer than a returned one.
C9_SearchReturnsNearest ==
    \A n \in 1..(3 * MaxRecords) :
        (Searched /\ HoldsItems(n) /\ 1 <= last.top_k /\ last.top_k <= n)
        => /\ last.outcome = "ok"
           /\ Len(last.results) = last.top_k
           /\ Ascending(last.results)
           /\ \E pos \in Selections(n, last.top_k) :
                 /\ ReportsPositions(last.results, pos, last.query)
                 /\ \A i \in 1..n :
                       (\A j \in 1..last.top_k : pos[j] # i)
                       => L2(index.vecs[i], Embed(last.query))
                            >= last.results[last.top_k].distance

\* a search for fewer items than are stored has returned
C9_Witness ==
    /\ Searched /\ last.outcome = "ok"
    /\ HoldsItems(2) /\ last.top_k = 1
    /\ Len(last.results) = 1
    /\ last.results[1].payload = metadata[2]

\* C10: when build_index has returned, the index holds exactly one entry for
\* each field of each input record that is non-empty and has no 'not found'
\* in it in any letter case, and no other entry.
C10_BuildIndexesKeptFields ==
    Built =>
        LET kept == IndexableFields(last.analysis_results)
        IN  /\ Len(index.vecs) = Cardinality(kept)
            /\ Len(metadata) = Cardinality(kept)
            /\ \E at \in [kept -> 1..Len(metadata)] :
                  /\ \A a, b \in kept : at[a] = at[b] => a = b
                  /\ \A a \in kept :
                        metadata[at[a]] =
                          [contract_id |->
                               last.analysis_results[a[1]].contract_id,
                           clause_type |-> a[2],
                           text |-> FieldText(last.analysis_results[a[1]],
                                              a[2])]

\* last is a build_index that stored an index: it returned, and its input had
\* a field to index
StoredIndex == Built /\ IndexableFields(last.analysis_results) # {}

\* C11: when build_index has stored an index, the vector at every position is
\* the embedding of the text of the payload at that position, which is the
\* clause at that position, and the payloads are the indexable fields of the
\* input in the order of the records, within a record termination,
\* confidentiality, liability.
C11_BuildKeepsOrder ==
    StoredIndex =>
        /\ Len(index.vecs) = Len(metadata)
        /\ Len(clauses) = Len(metadata)
        /\ \A i \in 1..Len(metadata) :
              /\ index.vecs[i] = Embed(metadata[i].text)
              /\ clauses[i] = metadata[i].text
        /\ metadata = PayloadsFrom(last.analysis_results, 1)

\* a build of two records has stored three payloads, the first record's first
C11_Witness ==
    /\ StoredIndex
    /\ Len(last.analysis_results) = 2
    /\ Len(metadata) = 3
    /\ metadata[1].contract_id = "c2"
    /\ metadata[2].contract_id = "c1"
    /\ metadata[2].clause_type = "termination"
    /\ metadata[3].clause_type = "liability"

\* C12: when save_index of a built index has returned, both artifacts are on
\* disk and hold what answers every search as the saving instance does; and a
\* load_index of whole artifacts returns and leaves the instance answering
\* every search as the artifacts do: the same payloads in the same order at
\* the same distances.
C12_SaveLoadRoundTrip ==
    /\ (last.op = "save_index" /\ last.outcome = "ok" /\ index.built)
       => (OnDisk /\ DiskAnswersAsMemory)
    /\ (last.op = "load_index" /\ OnDisk)
       => (last.outcome = "ok" /\ DiskAnswersAsMemory)

\* a load_index has returned with the two vectors and payloads of one save
C12_Witness ==
    /\ last.op = "load_index" /\ last.outcome = "ok"
    /\ HoldsItems(2)
    /\ faissFile.savedWith = metadata
    /\ metadata[1] # metadata[2]

\* C15: when load_index has returned, the instance holds exactly what the two
\* artifacts hold, the vectors of the one and the clauses and payloads of the
\* other, and nothing of what it held before.
C15_LoadReplacesContents ==
    (last.op = "load_index" /\ last.outcome = "ok")
    => /\ index = faissFile.index
       /\ clauses = pklFile.clauses
       /\ metadata = pklFile.metadata

\* a load_index has returned with the one item that is on disk
C15_Witness ==
    /\ last.op = "load_index" /\ last.outcome = "ok"
    /\ HoldsItems(1)
    /\ Len(pklFile.metadata) = 1

\* C13: on a built index, a search with top_k <= 0 does not raise and returns
\* an empty list.
C13_SearchForNoneReturnsEmpty ==
    (last.op = "search" /\ last.encode = "returned"
       /\ index.built /\ last.top_k <= 0)
    => (last.outcome = "ok" /\ last.results = <<>>)

\* the embedding of the texts or of the query has raised in the last call
EncodeRaised == last.encode = "raised"

\* C14: a call of build_index or search in which the embedding raises ends
\* with that error and leaves the index as it was, no vector added.
C14_EncodeErrorSurfaces ==
    [][ (last'.op \in {"build_index", "search"} /\ last'.encode = "raised")
        => /\ last'.outcome = "EncodeError"
           /\ index' = index ]_vars

\* the embedding has raised in a build_index on an instance holding an index
C14_Witness ==
    /\ last.op = "build_index" /\ EncodeRaised
    /\ last.outcome = "EncodeError"
    /\ index.built /\ Len(index.vecs) = 2
    /\ Len(metadata) = 1

\* the field of the result is in the index as it is: its payload at some
\* position, the embedding of its text at the same position
IndexedAsIs(result, field) ==
    \E i \in 1..Len(metadata) :
        /\ metadata[i] = [contract_id |-> result.contract_id,
                          clause_type |-> field,
                          text |-> FieldText(result, field)]
        /\ i <= Len(index.vecs)
        /\ index.vecs[i] = Embed(FieldText(result, field))

\* last is a build_index, which returned, of the result of a failed analysis
BuiltFromError == Built /\ last.analysis_results \in ErrorInputs

\* C19 as the specification states it: when build_index has returned from the
\* result of a failed analysis, every clause field of that result, an
\* 'Error: <message>' of extract_clauses or an 'Error' of batch_analyze, is
\* in the index as it is, whatever the message.
C19_ErrorTextsIndexed ==
    BuiltFromError
    => \A field \in ClauseFields :
          IndexedAsIs(last.analysis_results[1], field)

\* C19: when build_index has returned from the result of a failed analysis,
\* every clause field of that result which has no 'not found' in it, in any
\* letter case, is in the index as it is.
C19_ErrorTextsWithoutSentinelIndexed ==
    BuiltFromError
    => \A field \in ClauseFields :
          ~HasNotFound(FieldText(last.analysis_results[1], field))
          => IndexedAsIs(last.analysis_results[1], field)

\* the three 'Error: <message>' fields of a failed extraction are indexed
C19_Witness ==
    /\ BuiltFromError
    /\ HoldsItems(3)
    /\ metadata[1].text = "Error: Connection error."
    /\ \A field \in ClauseFields :
          IndexedAsIs(last.analysis_results[1], field)

\* C16: the text normalize_text returns has no two spaces in a row and no
\* three newlines in a row.
C16_NormalizedHasNoRuns ==
    last.op = "normalize_text"
    => /\ ~Contains(last.result, "  ")
       /\ ~Contains(last.result, "\n\n\n")

\* C17: validate_contract_text with the default min_length returns True for
\* a text of at least min_length characters and False for a shorter one.
C17_ValidIffLongEnough ==
    last.op = "validate_contract_text"
    => (last.result <=> Len(last.text) >= last.min_length)

\* the keys of the mapping extract_clauses is to return
ClauseKeys ==
    {"termination_clause", "confidentiality_clause", "liability_clause"}

\* C18: whatever the LLM replies, extract_clauses does not raise and returns
\* a mapping that has the three clause keys.
C18_ExtractReturnsThreeKeys ==
    last.op = "extract_clauses"
    => /\ last.outcome = "ok"
       /\ last.result.type = "dict"
       /\ ClauseKeys \subseteq DOMAIN last.result.items

\* the number of contracts batch_analyze is to process
Processed(contracts, max_contracts) ==
    IF max_contracts.isNone THEN Len(contracts)
    ELSE IF max_contracts.value < Len(contracts) THEN max_contracts.value
    ELSE Len(contracts)

\* C20: batch_analyze returns one result for each processed contract, in the
\* order of the mapping and with the id of the contract, also when the
\* analysis of a contract raises; it processes min(max_contracts, number of
\* contracts) contracts for max_contracts >= 0 and all of them for None.
C20_BatchOneResultPerContract ==
    (last.op = "batch_analyze"
       /\ (last.max_contracts.isNone \/ last.max_contracts.value >= 0))
    => /\ last.outcome = "ok"
       /\ Len(last.results) = Processed(last.contracts, last.max_contracts)
       /\ \A i \in 1..Len(last.results) :
             last.results[i].contract_id = last.contracts[i]

\* C21: for every text and every max_chunk_size >= 1, every chunk chunk_text
\* returns has at most max_chunk_size characters.
C21_ChunksFitSize ==
    (last.op = "chunk_text" /\ last.max_chunk_size >= 1)
    => \A i \in 1..Len(last.result) :
          Len(last.result[i]) <= last.max_chunk_size

====
